---- MODULE Spec2Model ----
(***************************************************************************)
(* TWAP calculator for a Solana AMM pool (twap-cli.js, twap_calculator.js). *)
(*                                                                         *)
(* The program is a set of synchronous functions.  Each function is an     *)
(* operator computed as the JavaScript computes it; an action calls one    *)
(* exported function on arguments drawn from bounded sets and records what *)
(* it returned or threw.                                                   *)
(*                                                                         *)
(* Numbers.  A tick_cumulative is a decimal string in the JSON; it is      *)
(* modelled by the integer it denotes, kept in limbs because it does not   *)
(* fit a machine word.  parseInt turns it into an IEEE-754 double, that    *)
(* is, rounds it to 53 significant bits (ties to even); the subtraction of *)
(* two doubles rounds again.  Quotients of doubles are kept as exact       *)
(* fractions (the model abstracts the last-bit rounding of a division),    *)
(* with NaN and +-Infinity as separate values.                             *)
(***************************************************************************)
EXTENDS Integers, Sequences, FiniteSets, TLC

(***************************************************************************)
(* Integers in limbs: [neg, mag], mag little-endian in base 2^15 without   *)
(* leading zero limbs; zero is [neg |-> FALSE, mag |-> <<>>].              *)
(***************************************************************************)
Base == 2^15

RECURSIVE Norm(_)
Norm(m) ==
    IF m = <<>> THEN m
    ELSE IF m[Len(m)] = 0 THEN Norm(SubSeq(m, 1, Len(m) - 1))
    ELSE m

RECURSIVE MagOfNat(_)
MagOfNat(n) == IF n = 0 THEN <<>> ELSE <<n % Base>> \o MagOfNat(n \div Base)

RECURSIVE MagCmpAt(_, _, _)
MagCmpAt(a, b, i) ==
    IF i = 0 THEN 0
    ELSE IF a[i] > b[i] THEN 1
    ELSE IF a[i] < b[i] THEN -1
    ELSE MagCmpAt(a, b, i - 1)

\* -1, 0 or 1 as a < b, a = b, a > b (both normalised).
MagCmp(a, b) ==
    IF Len(a) > Len(b) THEN 1
    ELSE IF Len(a) < Len(b) THEN -1
    ELSE MagCmpAt(a, b, Len(a))

RECURSIVE MagAddC(_, _, _)
MagAddC(a, b, c) ==
    IF a = <<>> /\ b = <<>> THEN (IF c = 0 THEN <<>> ELSE <<c>>)
    ELSE LET x == IF a = <<>> THEN 0 ELSE Head(a)
             y == IF b = <<>> THEN 0 ELSE Head(b)
             s == x + y + c
         IN <<s % Base>> \o MagAddC(IF a = <<>> THEN a ELSE Tail(a),
                                    IF b = <<>> THEN b ELSE Tail(b),
                                    s \div Base)

MagAdd(a, b) == MagAddC(a, b, 0)

RECURSIVE MagSubC(_, _, _)
MagSubC(a, b, c) ==
    IF a = <<>> THEN <<>>
    ELSE LET y == IF b = <<>> THEN 0 ELSE Head(b)
             s == Head(a) - y - c
         IN <<s % Base>> \o MagSubC(Tail(a),
                                    IF b = <<>> THEN b ELSE Tail(b),
                                    IF s < 0 THEN 1 ELSE 0)

\* a - b for a >= b.
MagSub(a, b) == Norm(MagSubC(a, b, 0))

RECURSIVE MagMulLimb(_, _, _)
MagMulLimb(a, k, c) ==
    IF a = <<>> THEN (IF c = 0 THEN <<>> ELSE <<c>>)
    ELSE LET s == Head(a) * k + c
         IN <<s % Base>> \o MagMulLimb(Tail(a), k, s \div Base)

RECURSIVE MagMul(_, _)
MagMul(a, b) ==
    IF a = <<>> \/ b = <<>> THEN <<>>
    ELSE Norm(MagAdd(MagMulLimb(a, Head(b), 0),
                     IF Tail(b) = <<>> THEN <<>>
                     ELSE <<0>> \o MagMul(a, Tail(b))))

BigZero == [neg |-> FALSE, mag |-> <<>>]

Big(neg, mag) == [neg |-> neg /\ mag # <<>>, mag |-> mag]

FromInt(n) == IF n < 0 THEN Big(TRUE, MagOfNat(-n)) ELSE Big(FALSE, MagOfNat(n))

BigNeg(x) == Big(~x.neg, x.mag)

BigAbs(x) == Big(FALSE, x.mag)

BigSign(x) == IF x.mag = <<>> THEN 0 ELSE IF x.neg THEN -1 ELSE 1

BigAdd(x, y) ==
    IF x.neg = y.neg THEN Big(x.neg, MagAdd(x.mag, y.mag))
    ELSE IF MagCmp(x.mag, y.mag) >= 0 THEN Big(x.neg, MagSub(x.mag, y.mag))
    ELSE Big(y.neg, MagSub(y.mag, x.mag))

BigSub(x, y) == BigAdd(x, BigNeg(y))

BigMul(x, y) == Big(x.neg # y.neg, MagMul(x.mag, y.mag))

\* -1, 0 or 1 as x < y, x = y, x > y.
BigCmp(x, y) == BigSign(BigSub(x, y))

(***************************************************************************)
(* IEEE-754 double: 53 significant bits, round to nearest, ties to even.   *)
(***************************************************************************)
MantissaBits == 53

RECURSIVE LimbBits(_)
LimbBits(n) == IF n = 0 THEN 0 ELSE 1 + LimbBits(n \div 2)

BitLen(m) == IF m = <<>> THEN 0 ELSE 15 * (Len(m) - 1) + LimbBits(m[Len(m)])

\* 2^k as a magnitude.
Pow2Mag(k) == [i \in 1..(k \div 15) |-> 0] \o <<2^(k % 15)>>

\* The low s bits of m.
MagLowBits(m, s) ==
    LET q == s \div 15
        r == s % 15
    IN IF q >= Len(m) THEN m
       ELSE Norm(SubSeq(m, 1, q) \o <<m[q + 1] % (2^r)>>)

\* Bit s (0 = least significant) of m.
MagBit(m, s) ==
    LET q == s \div 15
    IN IF q >= Len(m) THEN 0 ELSE (m[q + 1] \div 2^(s % 15)) % 2

RoundMag(m) ==
    LET s == BitLen(m) - MantissaBits
    IN IF s <= 0 THEN m
       ELSE LET low  == MagLowBits(m, s)
                down == MagSub(m, low)
                half == MagCmp(low, Pow2Mag(s - 1))
            IN IF half > 0 \/ (half = 0 /\ MagBit(m, s) = 1)
               THEN MagAdd(down, Pow2Mag(s))
               ELSE down

\* The double nearest to the integer x.
ToDouble(x) == Big(x.neg, RoundMag(x.mag))


(***************************************************************************)
(* JavaScript numbers of small magnitude (priceDiffPercent,                *)
(* timePeriodHours): [k, n, d] is the fraction n/d (d > 0) when            *)
(* k = "fin", NaN when k = "nan", and +Infinity or -Infinity (n = 1 or -1) *)
(* when k = "inf".  Every comparison with NaN is false.                    *)
(***************************************************************************)
Fin(n, d) == [k |-> "fin", n |-> n, d |-> d]

NaN == [k |-> "nan", n |-> 0, d |-> 0]

Infinity == [k |-> "inf", n |-> 1, d |-> 0]

NegInfinity == [k |-> "inf", n |-> -1, d |-> 0]

NumGt(x, y) ==
    /\ x.k # "nan"
    /\ y.k # "nan"
    /\ IF x.k = "fin" /\ y.k = "fin" THEN x.n * y.d > y.n * x.d
       ELSE IF x.k = "inf" /\ y.k = "inf" THEN x.n > y.n
       ELSE IF x.k = "inf" THEN x.n > 0
       ELSE y.n < 0

NumLt(x, y) == NumGt(y, x)

(***************************************************************************)
(* Exact fractions of integers in limbs: [n, d] with d > 0.                *)
(***************************************************************************)
Frac(n, d) == [n |-> n, d |-> d]

FracAdd(f, g) == Frac(BigAdd(BigMul(f.n, g.d), BigMul(g.n, f.d)), BigMul(f.d, g.d))

FracAbs(f) == Frac(BigAbs(f.n), f.d)

FracGt(f, g) == BigCmp(BigMul(f.n, g.d), BigMul(g.n, f.d)) > 0

RECURSIVE FracSum(_)
FracSum(fs) ==
    IF fs = <<>> THEN Frac(BigZero, FromInt(1))
    ELSE FracAdd(Head(fs), FracSum(Tail(fs)))

\* parseInt(a) - parseInt(b): both operands and the difference are doubles.
ParseIntDiff(a, b) == ToDouble(BigSub(ToDouble(a), ToDouble(b)))

(***************************************************************************)
(* detectManipulation (twap_calculator.js).  The body is the sequence of   *)
(* its five factor checks on the locals factors, riskLevel and warning.    *)
(***************************************************************************)
null == "null"

WarnExtreme == "Extreme price difference detected! Possible pump/dump or flash loan attack"
WarnHigh == "Very high price difference - investigate for manipulation"
WarnRapid == "Rapid price change in short timeframe - possible manipulation"
WarnShort == "Very short observation period - results may not be reliable"

Includes(seq, x) == \E i \in 1..Len(seq) : seq[i] = x

Locals0 == [factors |-> <<>>, riskLevel |-> "LOW", warning |-> null]

\* A faulty factor 1: the bound of the high band is inclusive (>= 30).
Factor1_From30(st, priceDiffPercent) ==
    IF NumGt(priceDiffPercent, Fin(50, 1))
    THEN [factors |-> Append(st.factors, "EXTREME_PRICE_DIFF"),
          riskLevel |-> "CRITICAL", warning |-> WarnExtreme]
    ELSE IF NumGt(priceDiffPercent, Fin(30, 1)) \/ priceDiffPercent = Fin(30, 1)
    THEN [factors |-> Append(st.factors, "HIGH_PRICE_DIFF"),
          riskLevel |-> "HIGH", warning |-> WarnHigh]
    ELSE IF NumGt(priceDiffPercent, Fin(15, 1))
    THEN [st EXCEPT !.factors = Append(@, "MODERATE_PRICE_DIFF"),
                    !.riskLevel = "MEDIUM"]
    ELSE st

\* Factor 1: extreme price difference.
Factor1(st, priceDiffPercent) ==
    IF NumGt(priceDiffPercent, Fin(50, 1))
    THEN [factors |-> Append(st.factors, "EXTREME_PRICE_DIFF"),
          riskLevel |-> "CRITICAL", warning |-> WarnExtreme]
    ELSE IF NumGt(priceDiffPercent, Fin(30, 1))
    THEN [factors |-> Append(st.factors, "HIGH_PRICE_DIFF"),
          riskLevel |-> "HIGH", warning |-> WarnHigh]
    ELSE IF NumGt(priceDiffPercent, Fin(15, 1))
    THEN [st EXCEPT !.factors = Append(@, "MODERATE_PRICE_DIFF"),
                    !.riskLevel = "MEDIUM"]
    ELSE st

\* A faulty factor 2: the rapid-change warning replaces the warning of
\* factor 1.
Factor2_Overwrites(st, priceDiffPercent, timePeriodHours) ==
    IF NumLt(timePeriodHours, Fin(1, 1)) /\ NumGt(priceDiffPercent, Fin(20, 1))
    THEN [factors |-> Append(st.factors, "RAPID_PRICE_CHANGE"),
          riskLevel |-> IF st.riskLevel = "LOW" THEN "HIGH" ELSE st.riskLevel,
          warning |-> WarnRapid]
    ELSE st

\* A faulty factor 2: a price difference of 20 counts as a big change.
Factor2_From20(st, priceDiffPercent, timePeriodHours) ==
    IF /\ NumLt(timePeriodHours, Fin(1, 1))
       /\ (NumGt(priceDiffPercent, Fin(20, 1)) \/ priceDiffPercent = Fin(20, 1))
    THEN [factors |-> Append(st.factors, "RAPID_PRICE_CHANGE"),
          riskLevel |-> IF st.riskLevel = "LOW" THEN "HIGH" ELSE st.riskLevel,
          warning |-> IF st.warning # null THEN st.warning ELSE WarnRapid]
    ELSE st

\* A faulty factor 2: the rapid change raises MEDIUM to HIGH as well.
Factor2_RaisesMedium(st, priceDiffPercent, timePeriodHours) ==
    IF NumLt(timePeriodHours, Fin(1, 1)) /\ NumGt(priceDiffPercent, Fin(20, 1))
    THEN [factors |-> Append(st.factors, "RAPID_PRICE_CHANGE"),
          riskLevel |-> IF st.riskLevel \in {"LOW", "MEDIUM"} THEN "HIGH"
                        ELSE st.riskLevel,
          warning |-> IF st.warning # null THEN st.warning ELSE WarnRapid]
    ELSE st

\* Factor 2: short time period with big changes.
Factor2(st, priceDiffPercent, timePeriodHours) ==
    IF NumLt(timePeriodHours, Fin(1, 1)) /\ NumGt(priceDiffPercent, Fin(20, 1))
    THEN [factors |-> Append(st.factors, "RAPID_PRICE_CHANGE"),
          riskLevel |-> IF st.riskLevel = "LOW" THEN "HIGH" ELSE st.riskLevel,
          warning |-> IF st.warning # null THEN st.warning ELSE WarnRapid]
    ELSE st

\* The loop of factor 3: tickDiff / timeDiff of the consecutive pairs with
\* timeDiff > 0.
RECURSIVE TickMovementsFrom(_, _)
TickMovementsFrom(observations, i) ==
    IF i > Len(observations) THEN <<>>
    ELSE LET timeDiff == observations[i].block_timestamp
                         - observations[i - 1].block_timestamp
             tickDiff == ParseIntDiff(observations[i].tick_cumulative,
                                      observations[i - 1].tick_cumulative)
         IN (IF timeDiff > 0 THEN <<Frac(tickDiff, FromInt(timeDiff))>> ELSE <<>>)
            \o TickMovementsFrom(observations, i + 1)

TickMovements(observations) == TickMovementsFrom(observations, 2)

\* A faulty spike test: maxMovement > Math.abs(avgTickMovement), the factor
\* 10 forgotten.
SuddenSpike_NoFactor10(tickMovements) ==
    /\ tickMovements # <<>>
    /\ LET Avg(sum) == Frac(sum.n, BigMul(sum.d, FromInt(Len(tickMovements))))
           Exceeds(lim) ==
               \E i \in 1..Len(tickMovements) :
                   FracGt(FracAbs(tickMovements[i]), lim)
       IN Exceeds(FracAbs(Avg(FracSum(tickMovements))))

\* maxMovement > Math.abs(avgTickMovement) * 10.  With no movement the
\* average is 0 / 0 = NaN and Math.max() is -Infinity: the test is false.
SuddenSpike(tickMovements) ==
    /\ tickMovements # <<>>
    /\ LET Avg(sum) == Frac(sum.n, BigMul(sum.d, FromInt(Len(tickMovements))))
           Times10(avg) == Frac(BigMul(BigAbs(avg.n), FromInt(10)), avg.d)
           Exceeds(lim) ==
               \E i \in 1..Len(tickMovements) :
                   FracGt(FracAbs(tickMovements[i]), lim)
       IN Exceeds(Times10(Avg(FracSum(tickMovements))))

\* A faulty factor 3: the spike sets HIGH whatever the level is.
Factor3_SetsHigh(st, observations) ==
    IF SuddenSpike(TickMovements(observations))
    THEN [st EXCEPT !.factors = Append(@, "TICK_SPIKE"), !.riskLevel = "HIGH"]
    ELSE st

\* Factor 3: analysis of the tick movements pattern.
Factor3(st, observations) ==
    IF SuddenSpike(TickMovements(observations))
    THEN [st EXCEPT !.factors = Append(@, "TICK_SPIKE"),
                    !.riskLevel = IF @ = "LOW" \/ @ = "MEDIUM" THEN "HIGH" ELSE @]
    ELSE st

\* A faulty factor 4: too short a window makes the level at least MEDIUM.
Factor4_RaisesLevel(st, timePeriodHours) ==
    IF NumLt(timePeriodHours, Fin(1, 10))
    THEN [st EXCEPT !.factors = Append(@, "INSUFFICIENT_DATA"),
                    !.riskLevel = IF @ = "LOW" THEN "MEDIUM" ELSE @,
                    !.warning = IF @ # null THEN @ ELSE WarnShort]
    ELSE st

\* A faulty factor 4: every window under 2 hours counts as too short.
Factor4_Under2Hours(st, timePeriodHours) ==
    IF NumLt(timePeriodHours, Fin(2, 1))
    THEN [st EXCEPT !.factors = Append(@, "INSUFFICIENT_DATA"),
                    !.warning = IF @ # null THEN @ ELSE WarnShort]
    ELSE st

\* Factor 4: very short observation window.
Factor4(st, timePeriodHours) ==
    IF NumLt(timePeriodHours, Fin(1, 10))
    THEN [st EXCEPT !.factors = Append(@, "INSUFFICIENT_DATA"),
                    !.warning = IF @ # null THEN @ ELSE WarnShort]
    ELSE st

\* The Set of factor 5: Math.round((c[i] - c[i-1]) * 1000) for i >= 1.
UniqueRatios(observations) ==
    { ToDouble(BigMul(ParseIntDiff(observations[i].tick_cumulative,
                                   observations[i - 1].tick_cumulative),
                      FromInt(1000))) : i \in 2..Len(observations) }

\* A faulty test of repetition: fewer distinct ratios than half the
\* observations.
TooRepetitive_Half(observations) ==
    Cardinality(UniqueRatios(observations)) * 2 < Len(observations)

\* uniqueRatios.size < observations.length * 0.3
TooRepetitive(observations) ==
    Cardinality(UniqueRatios(observations)) * 10 < Len(observations) * 3

\* A faulty factor 5: the repetition sets MEDIUM whatever the level is.
Factor5_SetsMedium(st, observations) ==
    IF TooRepetitive(observations)
    THEN [st EXCEPT !.factors = Append(@, "REPETITIVE_PATTERNS"),
                    !.riskLevel = "MEDIUM"]
    ELSE st

\* Factor 5: wash trading indicators (repetitive patterns).
Factor5(st, observations) ==
    IF TooRepetitive(observations)
    THEN [st EXCEPT !.factors = Append(@, "REPETITIVE_PATTERNS"),
                    !.riskLevel = IF @ = "LOW" THEN "MEDIUM" ELSE @]
    ELSE st

\* A faulty last step: NORMAL_MOVEMENT is added whatever fired.
NoFactors_Always(st) == [st EXCEPT !.factors = Append(@, "NORMAL_MOVEMENT")]

\* No factors found = legitimate movement.
NoFactors(st) ==
    IF Len(st.factors) = 0
    THEN [st EXCEPT !.factors = Append(@, "NORMAL_MOVEMENT")]
    ELSE st

Min(a, b) == IF a < b THEN a ELSE b
Max(a, b) == IF a > b THEN a ELSE b

\* A faulty confidence: the sum without Math.min and Math.max.
calculateConfidence_Unclamped(factors, timePeriodHours) ==
    50 + (IF NumGt(timePeriodHours, Fin(1, 1)) THEN 20 ELSE 0)
       + (IF NumGt(timePeriodHours, Fin(6, 1)) THEN 15 ELSE 0)
       + (IF Includes(factors, "NORMAL_MOVEMENT") THEN 15 ELSE 0)
       + (IF Includes(factors, "EXTREME_PRICE_DIFF") THEN 25 ELSE 0)
       - (IF Includes(factors, "INSUFFICIENT_DATA") THEN 30 ELSE 0)

calculateConfidence(factors, timePeriodHours) ==
    LET c0 == 50
        c1 == IF NumGt(timePeriodHours, Fin(1, 1)) THEN c0 + 20 ELSE c0
        c2 == IF NumGt(timePeriodHours, Fin(6, 1)) THEN c1 + 15 ELSE c1
        c3 == IF Includes(factors, "NORMAL_MOVEMENT") THEN c2 + 15 ELSE c2
        c4 == IF Includes(factors, "EXTREME_PRICE_DIFF") THEN c3 + 25 ELSE c3
        c5 == IF Includes(factors, "INSUFFICIENT_DATA") THEN c4 - 30 ELSE c4
    IN Min(Max(c5, 0), 100)

RecCritical == <<"DO NOT TRADE - High manipulation risk",
                 "Wait for market stabilization",
                 "Investigate recent transactions">>
RecHigh == <<"Trade with extreme caution",
             "Use smaller position sizes",
             "Wait for longer observation period">>
RecMedium == <<"Consider market volatility",
               "Cross-check with other indicators">>
RecLow == <<"Normal market conditions",
            "Safe to trade with normal risk management">>
RecCollect == "Collect more historical data"

\* Faulty recommendations: the item for INSUFFICIENT_DATA goes first.
getRecommendations_CollectFirst(riskLevel, factors) ==
    LET byLevel == IF riskLevel = "CRITICAL" THEN RecCritical
                   ELSE IF riskLevel = "HIGH" THEN RecHigh
                   ELSE IF riskLevel = "MEDIUM" THEN RecMedium
                   ELSE RecLow
    IN IF Includes(factors, "INSUFFICIENT_DATA")
       THEN <<RecCollect>> \o byLevel
       ELSE byLevel

getRecommendations(riskLevel, factors) ==
    LET byLevel == IF riskLevel = "CRITICAL" THEN RecCritical
                   ELSE IF riskLevel = "HIGH" THEN RecHigh
                   ELSE IF riskLevel = "MEDIUM" THEN RecMedium
                   ELSE IF riskLevel = "LOW" THEN RecLow
                   ELSE <<>>
    IN IF Includes(factors, "INSUFFICIENT_DATA")
       THEN Append(byLevel, RecCollect)
       ELSE byLevel

\* The locals of detectManipulation after each of its checks, in order.
Last(seq) == seq[Len(seq)]

ScoreSteps(priceDiffPercent, timePeriodHours, observations) ==
    LET After1(tr) == Append(tr, Factor1(Last(tr), priceDiffPercent))
        After2(tr) == Append(tr, Factor2(Last(tr), priceDiffPercent, timePeriodHours))
        After3(tr) == Append(tr, Factor3(Last(tr), observations))
        After4(tr) == Append(tr, Factor4(Last(tr), timePeriodHours))
        After5(tr) == Append(tr, Factor5(Last(tr), observations))
        AfterAll(tr) == Append(tr, NoFactors(Last(tr)))
    IN AfterAll(After5(After4(After3(After2(After1(<<Locals0>>))))))

detectManipulation(priceDiffPercent, timePeriodHours, observations) ==
    LET Report(st) ==
            [level |-> st.riskLevel,
             factors |-> st.factors,
             warning |-> st.warning,
             confidence |-> calculateConfidence(st.factors, timePeriodHours),
             recommendations |-> getRecommendations(st.riskLevel, st.factors)]
    IN Report(Last(ScoreSteps(priceDiffPercent, timePeriodHours, observations)))


(***************************************************************************)
(* calculateTWAPCLI (twap-cli.js) and calculateTWAP (twap_calculator.js):  *)
(* the same statements in both files.                                      *)
(*                                                                         *)
(* Math.pow(1.0001, tick) is not computed digit by digit.  A price is kept *)
(* as its class (NaN, 0, a positive finite number, Infinity) and the tick  *)
(* it is the power of; priceDiffPercent, |1.0001^(twapTick - currentTick)  *)
(* - 1| * 100 for two finite prices, is kept to the precision the scorer   *)
(* reads it with: rounded up to the next of the thresholds 15, 20, 30, 50  *)
(* it is compared with (51 stands for every finite value above 50).  The   *)
(* tick thresholds are those of the real function to a hundredth of a      *)
(* tick.                                                                   *)
(***************************************************************************)

\* observations.filter(obs => obs.block_timestamp > 0)
ValidObservations(observations) ==
    SelectSeq(observations, LAMBDA obs : obs.block_timestamp > 0)

\* One step of a stable sort: x goes behind every element that is not later.
RECURSIVE InsertByTimestamp(_, _)
InsertByTimestamp(sorted, x) ==
    IF sorted = <<>> THEN <<x>>
    ELSE IF Head(sorted).block_timestamp - x.block_timestamp <= 0
    THEN <<Head(sorted)>> \o InsertByTimestamp(Tail(sorted), x)
    ELSE <<x>> \o sorted

\* A faulty sort: the list is left in input order.
SortByTimestamp_InputOrder(seq) == seq

\* validObservations.sort((a, b) => a.block_timestamp - b.block_timestamp):
\* Array.prototype.sort is stable.
RECURSIVE SortByTimestamp(_)
SortByTimestamp(seq) ==
    IF seq = <<>> THEN <<>>
    ELSE InsertByTimestamp(SortByTimestamp(SubSeq(seq, 1, Len(seq) - 1)),
                           seq[Len(seq)])

\* tickCumulativeDiff / timeDiff as a tick: [k, n, d] with n in limbs.
\* A division by 0 is NaN for 0 / 0 and +-Infinity otherwise.
TickQuotient(tickCumulativeDiff, timeDiff) ==
    IF timeDiff # 0
    THEN [k |-> "fin",
          n |-> IF timeDiff < 0 THEN BigNeg(tickCumulativeDiff) ELSE tickCumulativeDiff,
          d |-> IF timeDiff < 0 THEN -timeDiff ELSE timeDiff]
    ELSE IF BigSign(tickCumulativeDiff) = 0
    THEN [k |-> "nan", n |-> BigZero, d |-> 0]
    ELSE [k |-> "inf", n |-> FromInt(BigSign(tickCumulativeDiff)), d |-> 0]

IntTick(tick) == [k |-> "fin", n |-> FromInt(tick), d |-> 1]

\* tick > c / 100 and tick < c / 100 for a finite tick and an integer c.
TickCmp(tick, c) ==
    BigCmp(BigMul(tick.n, FromInt(100)), BigMul(FromInt(c), FromInt(tick.d)))

TickAbove(tick, c) == TickCmp(tick, c) > 0
TickBelow(tick, c) == TickCmp(tick, c) < 0

\* The class of Math.pow(1.0001, tick): the power overflows to Infinity
\* above tick 7098182 and underflows to 0 below tick -7451704.
PowClass(tick) ==
    IF tick.k = "nan" THEN "nan"
    ELSE IF tick.k = "inf" THEN (IF BigSign(tick.n) > 0 THEN "inf" ELSE "zero")
    ELSE IF TickAbove(tick, 709818200) THEN "inf"
    ELSE IF TickBelow(tick, -745170400) THEN "zero"
    ELSE "pos"

\* price * decimalAdjustment: decimalAdjustment = Math.pow(10, decimals1 -
\* decimals0) is positive and finite and leaves the class as it is (for
\* the ticks of this model, none of which is within 10^3 of a threshold).
Price(tick) == [class |-> PowClass(tick), tick |-> tick]

\* tick a - tick b, both finite.
TickDelta(a, b) ==
    [k |-> "fin",
     n |-> BigSub(BigMul(a.n, FromInt(b.d)), BigMul(b.n, FromInt(a.d))),
     d |-> a.d * b.d]

\* |1.0001^delta - 1| * 100 rounded up to the next threshold of the scorer.
PercentOfDelta(delta) ==
    IF BigSign(delta.n) = 0 THEN 0
    ELSE IF TickAbove(delta, 405485) \/ TickBelow(delta, -693181) THEN 51
    ELSE IF TickAbove(delta, 262377) \/ TickBelow(delta, -356692) THEN 50
    ELSE IF TickAbove(delta, 182330) \/ TickBelow(delta, -223154) THEN 30
    ELSE IF TickAbove(delta, 139768) \/ TickBelow(delta, -162527) THEN 20
    ELSE 15

\* Math.abs((adjustedPrice - currentPrice) / currentPrice * 100)
PriceDiffPercent(adjustedPrice, currentPrice) ==
    LET a == adjustedPrice.class
        c == currentPrice.class
    IN IF a = "nan" \/ c = "nan" \/ c = "inf" THEN NaN
       ELSE IF c = "zero" THEN (IF a = "zero" THEN NaN ELSE Infinity)
       ELSE IF a = "inf" THEN Infinity
       ELSE IF a = "zero" THEN Fin(100, 1)
       ELSE Fin(PercentOfDelta(TickDelta(adjustedPrice.tick, currentPrice.tick)), 1)

ErrUndefined == "TypeError: Cannot read properties of undefined (reading 'block_timestamp')"
ErrInsufficient == "Need at least 2 observations to calculate TWAP"

NoValue == [none |-> TRUE]

Throw(error) == [kind |-> "throw", error |-> error, value |-> NoValue]

Return(value) == [kind |-> "return", error |-> "", value |-> value]

\* The arrays of a TWAP computation: the caller's, observations (it is
\* observationState.observations.data itself, not a copy), and the
\* function's own, validObservations.
Arrays(observations) == [observations |-> observations, validObservations |-> <<>>]

\* observations.filter(...) returns a new array and writes nothing.
FilterArray(arrays) ==
    [arrays EXCEPT !.validObservations = ValidObservations(arrays.observations)]

\* A faulty sort: observations.sort(...), on the caller's array, before the
\* filter.
SortArray_OfCaller(arrays) ==
    [arrays EXCEPT !.observations = SortByTimestamp(@),
                   !.validObservations = SortByTimestamp(@)]

\* validObservations.sort(...) sorts the array it is called on, in place.
SortArray(arrays) == [arrays EXCEPT !.validObservations = SortByTimestamp(@)]

TwapArrays(observations) == SortArray(FilterArray(Arrays(observations)))

\* What a call leaves of the objects its caller passed.  Nothing assigns
\* to a field of poolState.
TwapHeap(poolState, observations) ==
    [poolState |-> poolState, observations |-> TwapArrays(observations).observations]

\* detectManipulation reads observations by index and with map, which
\* returns a new array.
ScorerHeap(observations) == [observations |-> observations]

\* The statements shared by calculateTWAPCLI and calculateTWAP.  The
\* fields timeDiff and tickCumulativeDiff of the value are the locals the
\* function prints with console.log.
TwapBody(poolState, observations) ==
    LET Result(validObservations, timeDiff, tickCumulativeDiff, twapTick,
               adjustedPrice, currentPrice, priceDiffPercent, timePeriodHours) ==
            Return([twapTick |-> twapTick,
                    twapPrice |-> adjustedPrice,
                    currentPrice |-> currentPrice,
                    timePeriodHours |-> timePeriodHours,
                    observationCount |-> Len(validObservations),
                    priceDifferencePercent |-> priceDiffPercent,
                    manipulationAnalysis |->
                        detectManipulation(priceDiffPercent, timePeriodHours,
                                           validObservations),
                    timeDiff |-> timeDiff,
                    tickCumulativeDiff |-> tickCumulativeDiff])
        Prices(validObservations, timeDiff, tickCumulativeDiff, twapTick,
               adjustedPrice, currentPrice) ==
            Result(validObservations, timeDiff, tickCumulativeDiff, twapTick,
                   adjustedPrice, currentPrice,
                   PriceDiffPercent(adjustedPrice, currentPrice),
                   Fin(timeDiff, 3600))
        Twap(validObservations, timeDiff, tickCumulativeDiff, twapTick) ==
            Prices(validObservations, timeDiff, tickCumulativeDiff, twapTick,
                   Price(twapTick), Price(IntTick(poolState.tick_current)))
        Diffs(validObservations, timeDiff, tickCumulativeDiff) ==
            Twap(validObservations, timeDiff, tickCumulativeDiff,
                 TickQuotient(tickCumulativeDiff, timeDiff))
        Ends(validObservations, oldestObs, newestObs) ==
            Diffs(validObservations,
                  newestObs.block_timestamp - oldestObs.block_timestamp,
                  ParseIntDiff(newestObs.tick_cumulative, oldestObs.tick_cumulative))
        Sorted(validObservations) ==
            \* console.log reads validObservations[0].block_timestamp first
            IF Len(validObservations) = 0 THEN Throw(ErrUndefined)
            ELSE IF Len(validObservations) < 2 THEN Throw(ErrInsufficient)
            ELSE Ends(validObservations, validObservations[1], Last(validObservations))
    IN Sorted(TwapArrays(observations).validObservations)

calculateTWAPCLI(poolState, observationState) ==
    TwapBody(poolState, observationState)

calculateTWAP(poolState, observationState) ==
    TwapBody(poolState, observationState)


(***************************************************************************)
(* parseArguments (twap-cli.js): a switch over process.argv.slice(2).  An  *)
(* option that takes a value reads args[++i], whatever it is (undefined    *)
(* past the end); any other word ends the process with exit code 1.        *)
(***************************************************************************)
undefined == "undefined"

Exit(code, error) == [kind |-> "exit", error |-> error, value |-> [code |-> code]]

ArgAt(args, i) == IF i <= Len(args) THEN args[i] ELSE undefined

RECURSIVE ParseFrom(_, _, _)
ParseFrom(args, i, options) ==
    IF i > Len(args) THEN Return(options)
    ELSE IF args[i] = "--pool-file"
    THEN ParseFrom(args, i + 2, [options EXCEPT !.poolFile = ArgAt(args, i + 1)])
    ELSE IF args[i] = "--obs-file"
    THEN ParseFrom(args, i + 2, [options EXCEPT !.obsFile = ArgAt(args, i + 1)])
    ELSE IF args[i] = "--pool-json"
    THEN ParseFrom(args, i + 2, [options EXCEPT !.poolJson = ArgAt(args, i + 1)])
    ELSE IF args[i] = "--obs-json"
    THEN ParseFrom(args, i + 2, [options EXCEPT !.obsJson = ArgAt(args, i + 1)])
    ELSE IF args[i] = "--interactive" \/ args[i] = "-i"
    THEN ParseFrom(args, i + 1, [options EXCEPT !.interactive = "true"])
    ELSE Exit(1, "Unknown option: " \o args[i])

\* const options = {}: a key that was never set reads as undefined.
NoOptions ==
    [poolFile |-> undefined, obsFile |-> undefined, poolJson |-> undefined,
     obsJson |-> undefined, interactive |-> undefined]

parseArguments(args) == ParseFrom(args, 1, NoOptions)

(***************************************************************************)
(* The arguments the functions are called with.                            *)
(***************************************************************************)
MaxArgs == 2

\* The words of a command line: the options of the README's table and a
\* value.
ArgWords ==
    { "--pool-file", "--obs-file", "--pool-json", "--obs-json", "--interactive",
      "-i", "--help", "-h", "pool.json" }

MaxObs == 3
MaxSteps == 3

Obs(t, c) == [block_timestamp |-> t, tick_cumulative |-> c]

\* The two observations of the README's example run (oldest and newest).
ObsA == Obs(1755187080, BigNeg(BigAdd(BigMul(FromInt(576701), FromInt(1000000)), FromInt(345305))))
ObsB == Obs(1755188942, BigNeg(BigAdd(BigMul(FromInt(576731), FromInt(1000000)), FromInt(966831))))

\* 2^53 + 1 = 9007199254740993, the least integer that is no double.
TwoTo53Plus1 == BigAdd(Big(FALSE, Pow2Mag(53)), FromInt(1))

\* Timestamp 0 marks an empty slot of the ring buffer.  Obs(1755187080, 0)
\* ties with ObsA on the timestamp.
EngineObs ==
    { Obs(0, FromInt(0)), Obs(1755187080, FromInt(0)), Obs(1755187081, FromInt(1)),
      Obs(1755187081, TwoTo53Plus1), ObsA, ObsB }

SeqsUpTo(S, n) == UNION { [1..k -> S] : k \in 0..n }

EngineLists == SeqsUpTo(EngineObs, MaxObs)

\* tick_current: the sample pool's, 0, and one whose price underflows to 0.
Pools ==
    { [tick_current |-> c, mint_decimals_0 |-> 9, mint_decimals_1 |-> 6] :
        c \in {-16520, 0, -8000000} }

\* Lists for the scorer: from (1, 0), each next observation is dt seconds
\* and dc cumulative ticks further.
ObsSteps == { <<1, 1>>, <<1, 2>>, <<1, -1>>, <<0, 1>> }

RECURSIVE Walk(_, _)
Walk(from, steps) ==
    IF steps = <<>> THEN <<from>>
    ELSE <<from>> \o Walk(Obs(from.block_timestamp + Head(steps)[1],
                               BigAdd(from.tick_cumulative, FromInt(Head(steps)[2]))),
                          Tail(steps))

\* Cumulative ticks around 2^62, where the doubles are 1024 apart: 600 and
\* then -400 ticks in one second each.
TwoTo62 == Big(FALSE, Pow2Mag(62))

WideTickList ==
    <<Obs(1, TwoTo62), Obs(2, BigAdd(TwoTo62, FromInt(600))),
      Obs(3, BigAdd(TwoTo62, FromInt(200)))>>

\* Around 2^62 again: 600 ticks further in each of three seconds.
WideUniformList == Walk(Obs(1, TwoTo62), <<<<1, 600>>, <<1, 600>>, <<1, 600>>>>)

ScorerLists ==
    {<<>>, WideTickList, WideUniformList}
    \cup { Walk(Obs(1, FromInt(0)), w) : w \in SeqsUpTo(ObsSteps, MaxSteps) }

PriceDiffs ==
    { Fin(n, 1) : n \in {0, 15, 16, 20, 21, 30, 31, 50, 51} }
    \cup {NaN, Infinity}

TimePeriods ==
    { Fin(n, 3600) : n \in {359, 360, 3600, 3601, 21600, 21601} } \cup {NaN}

AllFactors == <<"EXTREME_PRICE_DIFF", "HIGH_PRICE_DIFF", "MODERATE_PRICE_DIFF",
                "RAPID_PRICE_CHANGE", "TICK_SPIKE", "INSUFFICIENT_DATA",
                "REPETITIVE_PATTERNS", "NORMAL_MOVEMENT">>

FactorLists ==
    { SelectSeq(AllFactors, LAMBDA f : f \in S) :
        S \in SUBSET { AllFactors[i] : i \in 1..Len(AllFactors) } }

Levels == <<"LOW", "MEDIUM", "HIGH", "CRITICAL">>

(***************************************************************************)
(* The module-level constants of twap_calculator.js: the embedded sample   *)
(* pool and its ring buffer of observations, cut down to the two entries   *)
(* at its write index, the newest followed by the oldest.                  *)
(***************************************************************************)
ModuleScope ==
    [poolState |-> [tick_current |-> -16520, mint_decimals_0 |-> 9,
                    mint_decimals_1 |-> 6],
     observationState |-> <<ObsB, ObsA>>]

\* A faulty scope: the module's constants win over the parameters.
BodyScope_ModuleFirst(params) ==
    [n \in DOMAIN ModuleScope \cup DOMAIN params |->
        IF n \in DOMAIN ModuleScope THEN ModuleScope[n] ELSE params[n]]

\* The bindings the body of calculateTWAP sees: its parameters poolState
\* and observationState shadow the module's constants of the same names.
BodyScope(params) ==
    [n \in DOMAIN ModuleScope \cup DOMAIN params |->
        IF n \in DOMAIN params THEN params[n] ELSE ModuleScope[n]]

(***************************************************************************)
(* State: the call in progress, what it returned or threw, the locals      *)
(* (riskLevel, warning, factors) of detectManipulation after each of its   *)
(* checks when the call ran the scorer (<<>> when it did not), the objects *)
(* the caller passed as the call left them, and the results the caller     *)
(* has kept of earlier calls.                                              *)
(***************************************************************************)
VARIABLES pc, call, outcome, steps, heap, memo

vars == <<pc, call, outcome, steps, heap, memo>>

\* The scorer's locals in a TWAP computation: it runs on the sorted valid
\* observations, and only when the computation gets as far as its call.
EngineSteps(observations, result) ==
    IF result.kind = "return"
    THEN ScoreSteps(result.value.priceDifferencePercent, result.value.timePeriodHours,
                    SortByTimestamp(ValidObservations(observations)))
    ELSE <<>>

NoCall == [fn |-> "none"]

NoHeap == [none |-> TRUE]

Init ==
    /\ pc = "idle"
    /\ call = NoCall
    /\ outcome = Throw("")
    /\ steps = <<>>
    /\ heap = NoHeap
    /\ memo = {}

TwapCLICall(pools, lists) ==
    /\ pc = "idle"
    /\ \E poolState \in pools, observations \in lists :
          /\ call' = [fn |-> "calculateTWAPCLI", poolState |-> poolState,
                      observations |-> observations]
          /\ outcome' = calculateTWAPCLI(poolState, observations)
          /\ steps' = EngineSteps(observations, outcome')
          /\ heap' = TwapHeap(poolState, observations)
    /\ pc' = "done"
    /\ memo' = memo

TwapCall(pools, lists) ==
    /\ pc = "idle"
    /\ \E poolState \in pools, observations \in lists :
          /\ call' = [fn |-> "calculateTWAP", poolState |-> poolState,
                      observations |-> observations]
          /\ LET Body(scope) == calculateTWAP(scope.poolState, scope.observationState)
             IN outcome' = Body(BodyScope([poolState |-> poolState,
                                           observationState |-> observations]))
          /\ steps' = EngineSteps(observations, outcome')
          /\ heap' = TwapHeap(poolState, observations)
    /\ pc' = "done"
    /\ memo' = memo

ScorerCall(priceDiffs, timePeriods, lists) ==
    /\ pc = "idle"
    /\ \E priceDiffPercent \in priceDiffs, timePeriodHours \in timePeriods,
          observations \in lists :
          /\ call' = [fn |-> "detectManipulation",
                      priceDiffPercent |-> priceDiffPercent,
                      timePeriodHours |-> timePeriodHours,
                      observations |-> observations]
          /\ outcome' = Return(detectManipulation(priceDiffPercent, timePeriodHours,
                                                  observations))
          /\ steps' = ScoreSteps(priceDiffPercent, timePeriodHours, observations)
          /\ heap' = ScorerHeap(observations)
    /\ pc' = "done"
    /\ memo' = memo

CallCalculateTWAPCLI == TwapCLICall(Pools, EngineLists)

CallCalculateTWAP == TwapCall(Pools, EngineLists)

CallDetectManipulation == ScorerCall(PriceDiffs, TimePeriods, ScorerLists)

CallCalculateConfidence ==
    /\ pc = "idle"
    /\ \E factors \in FactorLists, timePeriodHours \in TimePeriods :
          /\ call' = [fn |-> "calculateConfidence", factors |-> factors,
                      timePeriodHours |-> timePeriodHours]
          /\ outcome' = Return(calculateConfidence(factors, timePeriodHours))
          /\ steps' = <<>>
    /\ pc' = "done"
    /\ heap' = NoHeap
    /\ memo' = memo

CallGetRecommendations ==
    /\ pc = "idle"
    /\ \E i \in 1..Len(Levels), factors \in FactorLists :
          /\ call' = [fn |-> "getRecommendations", riskLevel |-> Levels[i],
                      factors |-> factors]
          /\ outcome' = Return(getRecommendations(Levels[i], factors))
          /\ steps' = <<>>
    /\ pc' = "done"
    /\ heap' = NoHeap
    /\ memo' = memo

\* node twap-cli.js args: main starts with parseArguments().
CallParseArguments ==
    /\ pc = "idle"
    /\ \E args \in UNION { [1..k -> ArgWords] : k \in 0..MaxArgs } :
          /\ call' = [fn |-> "parseArguments", args |-> args]
          /\ outcome' = parseArguments(args)
    /\ pc' = "done"
    /\ steps' = <<>>
    /\ heap' = NoHeap
    /\ memo' = memo

\* The caller has the result; the next call starts from nothing, as no
\* function keeps state.
Finish ==
    /\ pc = "done"
    /\ pc' = "idle"
    /\ call' = NoCall
    /\ outcome' = Throw("")
    /\ steps' = <<>>
    /\ heap' = NoHeap
    /\ memo' = memo

Next ==
    \/ CallCalculateTWAPCLI
    \/ CallCalculateTWAP
    \/ CallDetectManipulation
    \/ CallCalculateConfidence
    \/ CallGetRecommendations
    \/ CallParseArguments
    \/ Finish

Spec == Init /\ [][Next]_vars

(***************************************************************************)
(* A caller that keeps results: the same functions, called again and       *)
(* again on a few argument values, the caller keeping up to MaxMemo of the *)
(* results it got.                                                         *)
(***************************************************************************)
MaxMemo == 2

PurePools == { p \in Pools : p.tick_current \in {-16520, 0} }

PureLists ==
    { <<>>, <<ObsB, Obs(0, FromInt(0)), ObsA>>, <<ObsA, ObsB>>,
      <<Obs(1755187080, FromInt(0)), ObsA, ObsB>> }

PureScorerLists ==
    { <<>>, Walk(Obs(1, FromInt(0)), <<<<1, 1>>, <<1, -1>>>>),
      Walk(Obs(1, FromInt(0)), <<<<1, 1>>, <<1, 1>>, <<1, 1>>>>) }

AgainCalculateTWAPCLI == TwapCLICall(PurePools, PureLists)

AgainCalculateTWAP == TwapCall(PurePools, PureLists)

AgainDetectManipulation ==
    ScorerCall({Fin(0, 1), Fin(51, 1)}, {Fin(359, 3600), Fin(21601, 3600)},
               PureScorerLists)

\* The caller keeps the result of the call.
Keep ==
    /\ pc = "done"
    /\ Cardinality(memo) < MaxMemo
    /\ \A m \in memo : m.call # call
    /\ memo' = memo \cup {[call |-> call, outcome |-> outcome]}
    /\ UNCHANGED <<pc, call, outcome, steps, heap>>

NextPure ==
    \/ AgainCalculateTWAPCLI
    \/ AgainCalculateTWAP
    \/ AgainDetectManipulation
    \/ Keep
    \/ Finish

SpecPure == Init /\ [][NextPure]_vars


(***************************************************************************)
(* Views of the state the properties are stated with.                      *)
(***************************************************************************)
TwapCalled == pc = "done" /\ call.fn \in {"calculateTWAPCLI", "calculateTWAP"}

TwapReturned == TwapCalled /\ outcome.kind = "return"

\* The observations of the call with timestamp > 0, in input order.
CallValid == ValidObservations(call.observations)

Timestamps(observations) ==
    { observations[i].block_timestamp : i \in 1..Len(observations) }

SetMin(S) == CHOOSE x \in S : \A y \in S : x <= y
SetMax(S) == CHOOSE x \in S : \A y \in S : x >= y

(***************************************************************************)
(* C1.  When the oldest and the newest valid observation have the same     *)
(* timestamp, the TWAP computation fails (InvalidTimeRange) and never      *)
(* returns a result whose twapTick, twapPrice or priceDifferencePercent is *)
(* NaN or Infinity.  The code divides by timeDiff = 0 and returns.         *)
(***************************************************************************)
C1_SameTimestamp ==
    /\ TwapCalled
    /\ Len(CallValid) >= 2
    /\ SetMin(Timestamps(CallValid)) = SetMax(Timestamps(CallValid))

C1_ZeroRangeFails ==
    C1_SameTimestamp =>
        /\ outcome.kind = "throw"
        /\ outcome.error \notin {ErrUndefined, ErrInsufficient}

(***************************************************************************)
(* C2.  With fewer than 2 observations of timestamp > 0 the TWAP           *)
(* computation fails with 'Need at least 2 observations to calculate       *)
(* TWAP'.  With none the code fails earlier, with a TypeError, on          *)
(* validObservations[0].block_timestamp.                                   *)
(***************************************************************************)
C2_FewerThanTwoIsInsufficientData ==
    (TwapCalled /\ Len(CallValid) < 2) =>
        /\ outcome.kind = "throw"
        /\ outcome.error = "Need at least 2 observations to calculate TWAP"

(***************************************************************************)
(* C3.  The TWAP computation does not depend on the input order of the     *)
(* observations.                                                           *)
(***************************************************************************)
\* Every reordering of a list is a chain of exchanges of two neighbours,
\* and each list of the chain is itself the list of a call: the property is
\* stated for one exchange, of every call.
NeighbourExchanges(seq) ==
    { [i \in 1..Len(seq) |-> IF i = k THEN seq[k + 1]
                              ELSE IF i = k + 1 THEN seq[k] ELSE seq[i]] :
        k \in 1..(Len(seq) - 1) }

SameTwap(a, b) ==
    /\ a.kind = "return"
    /\ b.kind = "return"
    /\ a.value.timeDiff = b.value.timeDiff
    /\ a.value.tickCumulativeDiff = b.value.tickCumulativeDiff
    /\ a.value.twapTick = b.value.twapTick
    /\ a.value.observationCount = b.value.observationCount

\* The claim as stated: equal timestamps allowed.
C3_OrderInvariantWithTies ==
    (TwapCalled /\ Len(CallValid) >= 2) =>
        \A perm \in NeighbourExchanges(call.observations) :
            SameTwap(outcome, TwapBody(call.poolState, perm))

\* No two valid observations with different tick_cumulative share the
\* oldest or share the newest timestamp.
C3_EndsUntied ==
    \A i, j \in 1..Len(CallValid) :
        (/\ CallValid[i].block_timestamp = CallValid[j].block_timestamp
         /\ CallValid[i].block_timestamp \in
                {SetMin(Timestamps(CallValid)), SetMax(Timestamps(CallValid))})
        => CallValid[i].tick_cumulative = CallValid[j].tick_cumulative

\* C3, amended: the computation is invariant to the input order of the
\* observations when the observations that tie for the oldest or for the
\* newest timestamp carry the same tick_cumulative.
C3_OrderInvariant ==
    (TwapCalled /\ Len(CallValid) >= 2 /\ C3_EndsUntied) =>
        \A perm \in NeighbourExchanges(call.observations) :
            SameTwap(outcome, TwapBody(call.poolState, perm))

\* A call on three valid observations given newest first, the other two
\* tying for the oldest timestamp with one tick_cumulative.
C3_Witness ==
    /\ TwapReturned
    /\ C3_EndsUntied
    /\ Len(CallValid) = 3
    /\ CallValid[1].block_timestamp > CallValid[3].block_timestamp
    /\ CallValid[2].block_timestamp = CallValid[3].block_timestamp
    /\ outcome.value.timeDiff > 0

(***************************************************************************)
(* C4.  Over exactly two observations A, B with 0 < A.timestamp <          *)
(* B.timestamp, in either order, timeDiff = B.timestamp - A.timestamp,     *)
(* tickCumulativeDiff = B.cumulativeTick - A.cumulativeTick and twapTick   *)
(* is their quotient.  parseInt rounds a tick_cumulative beyond 2^53.      *)
(***************************************************************************)
C4_PairIs(A, B) ==
    /\ Len(call.observations) = 2
    /\ 0 < A.block_timestamp
    /\ A.block_timestamp < B.block_timestamp
    /\ call.observations \in {<<A, B>>, <<B, A>>}

C4_TwoObservationsExact ==
    TwapCalled =>
        \A A, B \in EngineObs :
            C4_PairIs(A, B) =>
                /\ outcome.kind = "return"
                /\ outcome.value.timeDiff = B.block_timestamp - A.block_timestamp
                /\ outcome.value.tickCumulativeDiff =
                       BigSub(B.tick_cumulative, A.tick_cumulative)
                /\ outcome.value.twapTick =
                       [k |-> "fin",
                        n |-> BigSub(B.tick_cumulative, A.tick_cumulative),
                        d |-> B.block_timestamp - A.block_timestamp]

\* The README's pair: timeDiff = 1862, tickCumulativeDiff = -30621526.
C4_ReadmePair ==
    (TwapCalled /\ C4_PairIs(ObsA, ObsB)) =>
        /\ outcome.kind = "return"
        /\ outcome.value.timeDiff = 1862
        /\ outcome.value.tickCumulativeDiff = FromInt(-30621526)
        /\ outcome.value.twapTick = [k |-> "fin", n |-> FromInt(-30621526), d |-> 1862]


(***************************************************************************)
(* The scorer runs in a detectManipulation call and inside every TWAP      *)
(* computation that returns.                                               *)
(***************************************************************************)
ScorerCalled == pc = "done" /\ call.fn = "detectManipulation"

Scored == ScorerCalled \/ TwapReturned

ScoredPriceDiff ==
    IF ScorerCalled THEN call.priceDiffPercent
    ELSE outcome.value.priceDifferencePercent

ScoredTimePeriod ==
    IF ScorerCalled THEN call.timePeriodHours ELSE outcome.value.timePeriodHours

ScoredObservations ==
    IF ScorerCalled THEN call.observations ELSE SortByTimestamp(CallValid)

Report == IF ScorerCalled THEN outcome.value ELSE outcome.value.manipulationAnalysis

Clamp(c) == IF c < 0 THEN 0 ELSE IF c > 100 THEN 100 ELSE c

If(b, n) == IF b THEN n ELSE 0

(***************************************************************************)
(* C5.  For priceDiffPercent > 50, whatever the period and the             *)
(* observations: level = CRITICAL, EXTREME_PRICE_DIFF is among the         *)
(* factors, confidence = clamp(50 + 25 + 20 [period > 1] + 15 [period > 6] *)
(* - 30 [INSUFFICIENT_DATA fired], 0, 100), and no later check changes the *)
(* CRITICAL level.                                                         *)
(***************************************************************************)
C5_ExtremeIsCritical ==
    (Scored /\ NumGt(ScoredPriceDiff, Fin(50, 1))) =>
        /\ Report.level = "CRITICAL"
        /\ Includes(Report.factors, "EXTREME_PRICE_DIFF")
        /\ Report.confidence =
               Clamp(50 + 25
                     + If(NumGt(ScoredTimePeriod, Fin(1, 1)), 20)
                     + If(NumGt(ScoredTimePeriod, Fin(6, 1)), 15)
                     - If(NumLt(ScoredTimePeriod, Fin(1, 10)), 30))
        /\ \A k \in 2..7 : steps[k].riskLevel = "CRITICAL"

\* priceDiffPercent = 51 over a short period with a tick spike.
C5_Witness ==
    /\ ScorerCalled
    /\ call.priceDiffPercent = Fin(51, 1)
    /\ Includes(Report.factors, "TICK_SPIKE")
    /\ Includes(Report.factors, "INSUFFICIENT_DATA")
    /\ Report.confidence = 45

(***************************************************************************)
(* C6.  For priceDiffPercent = 0, a period of at least 0.1 hours and a     *)
(* smoothly varying list (at least 2 observations, strictly increasing     *)
(* timestamps, velocities of one sign within a factor of 10 of one         *)
(* another): level = LOW and factors = [NORMAL_MOVEMENT].  The velocities  *)
(* are the scorer's: the difference of the parsed cumulative ticks over    *)
(* the difference of the timestamps.                                       *)
(***************************************************************************)
Velocity(observations, i) ==
    Frac(ParseIntDiff(observations[i].tick_cumulative,
                      observations[i - 1].tick_cumulative),
         FromInt(observations[i].block_timestamp - observations[i - 1].block_timestamp))

Tenfold(f) == Frac(BigMul(BigAbs(f.n), FromInt(10)), f.d)

Smooth(observations) ==
    /\ Len(observations) >= 2
    /\ \A i \in 2..Len(observations) :
          observations[i].block_timestamp > observations[i - 1].block_timestamp
    /\ \/ \A i \in 2..Len(observations) : BigSign(Velocity(observations, i).n) > 0
       \/ \A i \in 2..Len(observations) : BigSign(Velocity(observations, i).n) < 0
    /\ \A i, j \in 2..Len(observations) :
          ~FracGt(FracAbs(Velocity(observations, i)),
                  Tenfold(Velocity(observations, j)))

C6_Case ==
    /\ Scored
    /\ ScoredPriceDiff = Fin(0, 1)
    /\ ScoredTimePeriod.k = "fin"
    /\ ~NumLt(ScoredTimePeriod, Fin(1, 10))
    /\ Smooth(ScoredObservations)

C7_Expected(factors, timePeriodHours) ==
    Clamp(50
          + If(NumGt(timePeriodHours, Fin(1, 1)), 20)
          + If(NumGt(timePeriodHours, Fin(6, 1)), 15)
          + If("NORMAL_MOVEMENT" \in {factors[i] : i \in 1..Len(factors)}, 15)
          + If("EXTREME_PRICE_DIFF" \in {factors[i] : i \in 1..Len(factors)}, 25)
          - If("INSUFFICIENT_DATA" \in {factors[i] : i \in 1..Len(factors)}, 30))

ConfidenceCalled == pc = "done" /\ call.fn = "calculateConfidence"

C7_ConfidenceFormula ==
    /\ ConfidenceCalled =>
           outcome.value = C7_Expected(call.factors, call.timePeriodHours)
    /\ Scored =>
           /\ Report.confidence = C7_Expected(Report.factors, ScoredTimePeriod)
           /\ Report.confidence \in 0..100

\* All the bonuses together: 125, clamped to 100.
C7_Witness ==
    /\ ConfidenceCalled
    /\ Includes(call.factors, "NORMAL_MOVEMENT")
    /\ Includes(call.factors, "EXTREME_PRICE_DIFF")
    /\ ~Includes(call.factors, "INSUFFICIENT_DATA")
    /\ NumGt(call.timePeriodHours, Fin(6, 1))
    /\ outcome.value = 100

(***************************************************************************)
(* C8.  The recommendations follow the final level (CRITICAL: do not       *)
(* trade; HIGH: extreme caution; MEDIUM: cross-check; LOW: normal          *)
(* conditions), and 'Collect more historical data' is appended, as the     *)
(* last element, if and only if INSUFFICIENT_DATA is among the factors.    *)
(***************************************************************************)
C8_Holds(riskLevel, factors, recommendations) ==
    /\ riskLevel = "CRITICAL" =>
           Includes(recommendations, "DO NOT TRADE - High manipulation risk")
    /\ riskLevel = "HIGH" => Includes(recommendations, "Trade with extreme caution")
    /\ riskLevel = "MEDIUM" =>
           Includes(recommendations, "Cross-check with other indicators")
    /\ riskLevel = "LOW" => Includes(recommendations, "Normal market conditions")
    /\ Includes(recommendations, "Collect more historical data")
           <=> Includes(factors, "INSUFFICIENT_DATA")
    /\ Includes(factors, "INSUFFICIENT_DATA") =>
           /\ Last(recommendations) = "Collect more historical data"
           /\ ~Includes(SubSeq(recommendations, 1, Len(recommendations) - 1),
                        "Collect more historical data")

RecommendationsCalled == pc = "done" /\ call.fn = "getRecommendations"

C8_RecommendationsByLevel ==
    /\ RecommendationsCalled => C8_Holds(call.riskLevel, call.factors, outcome.value)
    /\ Scored => C8_Holds(Report.level, Report.factors, Report.recommendations)

\* A LOW level with INSUFFICIENT_DATA: the normal-conditions items, then
\* the collect-more-data item.
C8_Witness ==
    /\ Scored
    /\ Report.level = "LOW"
    /\ Includes(Report.factors, "INSUFFICIENT_DATA")
    /\ Len(Report.recommendations) = 3

(***************************************************************************)
(* C9.  Within a detectManipulation call the level starts at LOW and no    *)
(* check lowers it (LOW < MEDIUM < HIGH < CRITICAL).                       *)
(***************************************************************************)
Rank(level) == CHOOSE i \in 1..Len(Levels) : Levels[i] = level

C9_LevelNeverLowered ==
    Scored =>
        /\ Len(steps) = 7
        /\ steps[1].riskLevel = "LOW"
        /\ \A k \in 1..6 : Rank(steps[k].riskLevel) <= Rank(steps[k + 1].riskLevel)
        /\ Report.level = steps[7].riskLevel

\* MEDIUM after factor 1, raised to HIGH by the tick spike of factor 3.
C9_Witness ==
    /\ Scored
    /\ Report.level = "HIGH"
    /\ steps[2].riskLevel = "MEDIUM"
    /\ steps[3].riskLevel = "MEDIUM"
    /\ steps[4].riskLevel = "HIGH"

(***************************************************************************)
(* C10.  The factors of a report are not empty; NORMAL_MOVEMENT is among   *)
(* them if and only if no check fired, and then it is the only factor,     *)
(* the level is LOW and the warning is null.                               *)
(***************************************************************************)
C10_NormalMovementAlone ==
    Scored =>
        /\ Len(Report.factors) > 0
        /\ Includes(Report.factors, "NORMAL_MOVEMENT")
               <=> (steps[6].factors = <<>>)
        /\ Includes(Report.factors, "NORMAL_MOVEMENT")
               <=> (\A i \in 1..Len(Report.factors) :
                        Report.factors[i] = "NORMAL_MOVEMENT")
        /\ Includes(Report.factors, "NORMAL_MOVEMENT") =>
               /\ Report.factors = <<"NORMAL_MOVEMENT">>
               /\ Report.level = "LOW"
               /\ Report.warning = null

C10_Witness ==
    /\ Scored
    /\ Report.factors = <<"NORMAL_MOVEMENT">>
    /\ Len(ScoredObservations) >= 3


(***************************************************************************)
(* C11.  The TWAP computation and the scorer are pure: a call leaves the   *)
(* caller's observation list (same elements, same order) and pool record   *)
(* as they were, the result is computed from the arguments and not from    *)
(* the module's embedded sample, and a call returns what an earlier call   *)
(* with equal arguments returned, whatever was called in between.          *)
(***************************************************************************)
C11_Pure ==
    pc = "done" =>
        /\ TwapCalled =>
               /\ heap.observations = call.observations
               /\ heap.poolState = call.poolState
        /\ ScorerCalled => heap.observations = call.observations
        /\ TwapReturned =>
               /\ outcome.value.observationCount = Len(CallValid)
               /\ outcome.value.currentPrice =
                      Price(IntTick(call.poolState.tick_current))
        /\ (TwapCalled /\ Len(CallValid) < 2) => outcome.kind = "throw"
        /\ \A m \in memo : m.call = call => m.outcome = outcome

\* calculateTWAP called again on an unsorted list with an empty slot and a
\* pool that is not the sample's, its earlier result and that of another
\* call kept.
C11_Witness ==
    /\ TwapReturned
    /\ call.fn = "calculateTWAP"
    /\ call.observations = <<ObsB, Obs(0, FromInt(0)), ObsA>>
    /\ call.poolState.tick_current = 0
    /\ \E m \in memo : m.call = call
    /\ \E m \in memo : m.call # call


(***************************************************************************)
(* C12.  The command line option --help (or -h) is accepted: it does not   *)
(* end the program with 'Unknown option' and exit code 1.  The switch of   *)
(* parseArguments has no case for it.                                      *)
(***************************************************************************)
ArgumentsParsed == pc = "done" /\ call.fn = "parseArguments"

C12_HelpIsAnOption ==
    (/\ ArgumentsParsed
     /\ Len(call.args) >= 1
     /\ call.args[1] \in {"--help", "-h"})
    => ~(outcome.kind = "exit" /\ outcome.value.code = 1)


(***************************************************************************)
(* C13.  When currentPrice = 1.0001^currentTick * decimalAdjustment is 0,  *)
(* the TWAP computation fails (division by zero) before the scorer runs    *)
(* and returns no result with priceDifferencePercent Infinity or NaN.  The *)
(* code divides by currentPrice without a test and goes on to the scorer.  *)
(***************************************************************************)
\* The case with a time range that is not empty, where nothing else of the
\* computation can fail.
C13_ZeroCurrentPrice ==
    /\ TwapCalled
    /\ Len(CallValid) >= 2
    /\ SetMin(Timestamps(CallValid)) < SetMax(Timestamps(CallValid))
    /\ Price(IntTick(call.poolState.tick_current)).class = "zero"

C13_ZeroCurrentPriceFails ==
    C13_ZeroCurrentPrice =>
        /\ outcome.kind = "throw"
        /\ steps = <<>>


(***************************************************************************)
(* C14.  The tickCumulativeDiff of a returned result is the exact integer  *)
(* difference of the cumulative ticks of the newest and the oldest valid   *)
(* observation, for all cumulative ticks of the signed 64-bit range, also  *)
(* those of magnitude above 2^53.  The code parses both strings with       *)
(* parseInt to doubles before it subtracts, so 2^53 + 1 is read as 2^53.   *)
(***************************************************************************)
InInt64(x) == BigCmp(BigAbs(x), Big(FALSE, Pow2Mag(63))) < 0

C14_Ends(sorted) ==
    BigSub(Last(sorted).tick_cumulative, sorted[1].tick_cumulative)

C14_ExactDifference ==
    (/\ TwapReturned
     /\ \A i \in 1..Len(CallValid) : InInt64(CallValid[i].tick_cumulative))
        => outcome.value.tickCumulativeDiff = C14_Ends(SortByTimestamp(CallValid))


(***************************************************************************)
(* C15.  Factor 1 adds one price-difference tag by the band of             *)
(* priceDiffPercent and sets the level with it: above 50                   *)
(* EXTREME_PRICE_DIFF and CRITICAL, in (30, 50] HIGH_PRICE_DIFF and HIGH,  *)
(* in (15, 30] MODERATE_PRICE_DIFF and MEDIUM, up to 15 no such tag and    *)
(* the level stays LOW.  At most one of the three tags is among the        *)
(* factors, once, and it is their first element.  The level is the one     *)
(* right after factor 1; the later checks may raise it.                    *)
(***************************************************************************)
NumLe(x, y) == x.k # "nan" /\ y.k # "nan" /\ ~NumGt(x, y)

PriceDiffTags == {"EXTREME_PRICE_DIFF", "HIGH_PRICE_DIFF", "MODERATE_PRICE_DIFF"}

\* The positions of the price-difference tags in a list of factors.
PriceDiffTagsAt(factors) == { i \in 1..Len(factors) : factors[i] \in PriceDiffTags }

C15_Band(tag, level) ==
    /\ PriceDiffTagsAt(Report.factors) = {1}
    /\ Report.factors[1] = tag
    /\ steps[2] = [factors |-> <<tag>>, riskLevel |-> level,
                   warning |-> steps[2].warning]

C15_PriceDiffBands ==
    Scored =>
        /\ NumGt(ScoredPriceDiff, Fin(50, 1)) =>
               C15_Band("EXTREME_PRICE_DIFF", "CRITICAL")
        /\ (NumGt(ScoredPriceDiff, Fin(30, 1)) /\ NumLe(ScoredPriceDiff, Fin(50, 1))) =>
               C15_Band("HIGH_PRICE_DIFF", "HIGH")
        /\ (NumGt(ScoredPriceDiff, Fin(15, 1)) /\ NumLe(ScoredPriceDiff, Fin(30, 1))) =>
               C15_Band("MODERATE_PRICE_DIFF", "MEDIUM")
        /\ NumLe(ScoredPriceDiff, Fin(15, 1)) =>
               /\ PriceDiffTagsAt(Report.factors) = {}
               /\ steps[2] = Locals0
        /\ Cardinality(PriceDiffTagsAt(Report.factors)) <= 1
        /\ PriceDiffTagsAt(Report.factors) \subseteq {1}

\* priceDiffPercent = 30, the upper end of the moderate band, over a short
\* period: the tag comes first and RAPID_PRICE_CHANGE after it.
C15_Witness ==
    /\ ScorerCalled
    /\ call.priceDiffPercent = Fin(30, 1)
    /\ Report.factors[1] = "MODERATE_PRICE_DIFF"
    /\ Len(Report.factors) >= 2
    /\ Report.factors[2] = "RAPID_PRICE_CHANGE"
    /\ steps[2].riskLevel = "MEDIUM"


(***************************************************************************)
(* C16.  The warning of a report is the message of the first fired factor  *)
(* in the order EXTREME_PRICE_DIFF, HIGH_PRICE_DIFF, RAPID_PRICE_CHANGE,   *)
(* INSUFFICIENT_DATA; a warning once set is kept by every later check; the *)
(* warning is null exactly when none of the four is among the factors.     *)
(***************************************************************************)
C16_Expected(factors) ==
    IF Includes(factors, "EXTREME_PRICE_DIFF") THEN WarnExtreme
    ELSE IF Includes(factors, "HIGH_PRICE_DIFF") THEN WarnHigh
    ELSE IF Includes(factors, "RAPID_PRICE_CHANGE") THEN WarnRapid
    ELSE IF Includes(factors, "INSUFFICIENT_DATA") THEN WarnShort
    ELSE null

C16_WarningFactors ==
    {"EXTREME_PRICE_DIFF", "HIGH_PRICE_DIFF", "RAPID_PRICE_CHANGE", "INSUFFICIENT_DATA"}

C16_FirstWarningWins ==
    Scored =>
        /\ Report.warning = C16_Expected(Report.factors)
        /\ \A k \in 1..6 :
               steps[k].warning # null => steps[k + 1].warning = steps[k].warning
        /\ Report.warning = null
               <=> (\A i \in 1..Len(Report.factors) :
                        Report.factors[i] \notin C16_WarningFactors)

\* HIGH_PRICE_DIFF, RAPID_PRICE_CHANGE and INSUFFICIENT_DATA all fired: the
\* warning is the one of HIGH_PRICE_DIFF.
C16_Witness ==
    /\ Scored
    /\ Includes(Report.factors, "HIGH_PRICE_DIFF")
    /\ Includes(Report.factors, "RAPID_PRICE_CHANGE")
    /\ Includes(Report.factors, "INSUFFICIENT_DATA")
    /\ Report.warning = WarnHigh


(***************************************************************************)
(* C17.  TICK_SPIKE is among the factors if and only if, over the          *)
(* velocities (c[i] - c[i-1]) / (t[i] - t[i-1]) of the consecutive pairs   *)
(* with t[i] - t[i-1] > 0, the greatest absolute velocity is above 10      *)
(* times the absolute mean velocity; with no such pair the check ends      *)
(* without an error and reports no spike.  A spike raises LOW and MEDIUM   *)
(* to HIGH and leaves HIGH and CRITICAL.  The velocities are those of the  *)
(* cumulative ticks as integers; the code takes them of the doubles that   *)
(* parseInt returns.                                                       *)
(***************************************************************************)
C17_Pairs(observations) ==
    SelectSeq([i \in 1..(Len(observations) - 1) |-> i + 1],
              LAMBDA i : observations[i].block_timestamp
                             > observations[i - 1].block_timestamp)

C17_Velocities(observations) ==
    LET Of(pairs) ==
            [j \in 1..Len(pairs) |->
                Frac(BigSub(observations[pairs[j]].tick_cumulative,
                            observations[pairs[j] - 1].tick_cumulative),
                     FromInt(observations[pairs[j]].block_timestamp
                             - observations[pairs[j] - 1].block_timestamp))]
    IN Of(C17_Pairs(observations))

C17_Mean(velocities) ==
    LET Over(sum) == Frac(sum.n, BigMul(sum.d, FromInt(Len(velocities))))
    IN Over(FracSum(velocities))

C17_Spike(velocities) ==
    /\ velocities # <<>>
    /\ \E i \in 1..Len(velocities) :
           FracGt(FracAbs(velocities[i]), Tenfold(C17_Mean(velocities)))

C17_TickSpikeRule ==
    Scored =>
        /\ Includes(Report.factors, "TICK_SPIKE")
               <=> C17_Spike(C17_Velocities(ScoredObservations))
        /\ C17_Pairs(ScoredObservations) = <<>> =>
               ~Includes(Report.factors, "TICK_SPIKE")
        /\ Includes(Report.factors, "TICK_SPIKE") =>
               steps[4].riskLevel =
                   IF steps[3].riskLevel \in {"LOW", "MEDIUM"} THEN "HIGH"
                   ELSE steps[3].riskLevel


(***************************************************************************)
(* C18.  REPETITIVE_PATTERNS is among the factors if and only if the       *)
(* distinct values among the consecutive cumulative-tick deltas, each      *)
(* times 1000 and rounded, number less than 0.3 times the observations;    *)
(* it raises LOW to MEDIUM and leaves every other level.  The deltas are   *)
(* those of the cumulative ticks as integers; the code takes them of the   *)
(* doubles that parseInt returns.                                          *)
(***************************************************************************)
C18_Deltas(observations) ==
    { BigMul(BigSub(observations[i].tick_cumulative,
                    observations[i - 1].tick_cumulative), FromInt(1000)) :
        i \in 2..Len(observations) }

C18_RepetitiveRule ==
    Scored =>
        /\ Includes(Report.factors, "REPETITIVE_PATTERNS")
               <=> (Cardinality(C18_Deltas(ScoredObservations)) * 10
                        < 3 * Len(ScoredObservations))
        /\ Includes(Report.factors, "REPETITIVE_PATTERNS") =>
               steps[6].riskLevel =
                   IF steps[5].riskLevel = "LOW" THEN "MEDIUM"
                   ELSE steps[5].riskLevel


(***************************************************************************)
(* C19.  RAPID_PRICE_CHANGE is among the factors if and only if            *)
(* timePeriodHours < 1 and priceDiffPercent > 20.  When it fires, the      *)
(* level becomes HIGH only if it is LOW, and the rapid-change warning is   *)
(* set only if no warning is set.                                          *)
(***************************************************************************)
C19_RapidChangeRule ==
    Scored =>
        /\ Includes(Report.factors, "RAPID_PRICE_CHANGE")
               <=> (/\ NumLt(ScoredTimePeriod, Fin(1, 1))
                    /\ NumGt(ScoredPriceDiff, Fin(20, 1)))
        /\ Includes(steps[3].factors, "RAPID_PRICE_CHANGE")
               <=> Includes(Report.factors, "RAPID_PRICE_CHANGE")
        /\ steps[3].riskLevel =
               IF Includes(Report.factors, "RAPID_PRICE_CHANGE")
                  /\ steps[2].riskLevel = "LOW"
               THEN "HIGH" ELSE steps[2].riskLevel
        /\ steps[3].warning =
               IF Includes(Report.factors, "RAPID_PRICE_CHANGE")
                  /\ steps[2].warning = null
               THEN WarnRapid ELSE steps[2].warning

\* priceDiffPercent = 21 over less than an hour: factor 1 left no warning,
\* the rapid change sets it.
C19_Witness ==
    /\ Scored
    /\ ScoredPriceDiff = Fin(21, 1)
    /\ Includes(Report.factors, "RAPID_PRICE_CHANGE")
    /\ steps[2].warning = null
    /\ steps[3].warning = WarnRapid
    /\ Report.warning = WarnRapid

(***************************************************************************)
(* C20.  INSUFFICIENT_DATA is among the factors if and only if             *)
(* timePeriodHours < 0.1.  The check of factor 4 never changes the level:  *)
(* the level right after it is the level right before it.  It sets the     *)
(* short-period warning only if no warning is set.                         *)
(***************************************************************************)
C20_InsufficientDataRule ==
    Scored =>
        /\ Includes(Report.factors, "INSUFFICIENT_DATA")
               <=> NumLt(ScoredTimePeriod, Fin(1, 10))
        /\ Includes(steps[5].factors, "INSUFFICIENT_DATA")
               <=> Includes(Report.factors, "INSUFFICIENT_DATA")
        /\ steps[5].riskLevel = steps[4].riskLevel
        /\ steps[5].warning =
               IF Includes(Report.factors, "INSUFFICIENT_DATA")
                  /\ steps[4].warning = null
               THEN WarnShort ELSE steps[4].warning

\* A period below 0.1 hours with no price difference: INSUFFICIENT_DATA is
\* reported with its warning and the level is still LOW.
C20_Witness ==
    /\ Scored
    /\ Includes(Report.factors, "INSUFFICIENT_DATA")
    /\ steps[4].riskLevel = "LOW"
    /\ steps[5].riskLevel = "LOW"
    /\ steps[4].warning = null
    /\ Report.warning = WarnShort


(***************************************************************************)
(* C21.  The check of RAPID_PRICE_CHANGE never changes the level: when it  *)
(* fires, factor 1 has made the level MEDIUM or higher, so the level is    *)
(* never LOW at its 'HIGH if LOW' assignment.  For priceDiffPercent in     *)
(* (20, 30] over less than an hour with no TICK_SPIKE the final level is   *)
(* MEDIUM, with RAPID_PRICE_CHANGE among the factors.                      *)
(***************************************************************************)
C21_RapidKeepsLevel ==
    Scored =>
        /\ steps[3].riskLevel = steps[2].riskLevel
        /\ Includes(Report.factors, "RAPID_PRICE_CHANGE") =>
               steps[2].riskLevel \in {"MEDIUM", "HIGH", "CRITICAL"}
        /\ (/\ NumGt(ScoredPriceDiff, Fin(20, 1))
            /\ NumLe(ScoredPriceDiff, Fin(30, 1))
            /\ NumLt(ScoredTimePeriod, Fin(1, 1))
            /\ ~Includes(Report.factors, "TICK_SPIKE")) =>
               /\ Report.level = "MEDIUM"
               /\ Includes(Report.factors, "RAPID_PRICE_CHANGE")

\* priceDiffPercent = 21 over less than an hour, no tick spike.
C21_Witness ==
    /\ Scored
    /\ ScoredPriceDiff = Fin(21, 1)
    /\ NumLt(ScoredTimePeriod, Fin(1, 1))
    /\ Len(ScoredObservations) >= 3
    /\ Report.factors = <<"MODERATE_PRICE_DIFF", "RAPID_PRICE_CHANGE">>
    /\ Report.level = "MEDIUM"


(***************************************************************************)
(* C22.  The confidence of every report of detectManipulation is at least  *)
(* 20 and is one of 20, 45, 50, 65, 70, 75, 85, 95, 100: the sum before    *)
(* the clamp is never below 20, because INSUFFICIENT_DATA comes with a     *)
(* period below 0.1 hours, so with neither time bonus and without          *)
(* NORMAL_MOVEMENT.                                                        *)
(***************************************************************************)
C22_Values == {20, 45, 50, 65, 70, 75, 85, 95, 100}

\* The sum of calculateConfidence before Math.max and Math.min.
C22_Sum(factors, timePeriodHours) ==
    50 + If(NumGt(timePeriodHours, Fin(1, 1)), 20)
       + If(NumGt(timePeriodHours, Fin(6, 1)), 15)
       + If("NORMAL_MOVEMENT" \in {factors[i] : i \in 1..Len(factors)}, 15)
       + If("EXTREME_PRICE_DIFF" \in {factors[i] : i \in 1..Len(factors)}, 25)
       - If("INSUFFICIENT_DATA" \in {factors[i] : i \in 1..Len(factors)}, 30)

C22_ConfidenceAtLeast20 ==
    Scored =>
        /\ Report.confidence >= 20
        /\ Report.confidence \in C22_Values
        /\ C22_Sum(Report.factors, ScoredTimePeriod) >= 20
        /\ Includes(Report.factors, "INSUFFICIENT_DATA") =>
               /\ ~NumGt(ScoredTimePeriod, Fin(1, 1))
               /\ ~Includes(Report.factors, "NORMAL_MOVEMENT")
               /\ Report.confidence \in {20, 45}

\* The least confidence: INSUFFICIENT_DATA without EXTREME_PRICE_DIFF.
C22_Witness ==
    /\ Scored
    /\ Includes(Report.factors, "INSUFFICIENT_DATA")
    /\ ~Includes(Report.factors, "EXTREME_PRICE_DIFF")
    /\ Report.confidence = 20


(***************************************************************************)
(* C23.  For a list of 2 or 3 observations REPETITIVE_PATTERNS is never    *)
(* reported, whatever the cumulative ticks; for two observations with a    *)
(* positive time delta TICK_SPIKE is never reported.  So with exactly two  *)
(* observations the factors and the level are determined by                *)
(* priceDiffPercent and timePeriodHours alone.                             *)
(***************************************************************************)
C23_Band(priceDiffPercent) ==
    IF NumGt(priceDiffPercent, Fin(50, 1)) THEN <<"EXTREME_PRICE_DIFF", "CRITICAL">>
    ELSE IF NumGt(priceDiffPercent, Fin(30, 1)) THEN <<"HIGH_PRICE_DIFF", "HIGH">>
    ELSE IF NumGt(priceDiffPercent, Fin(15, 1)) THEN <<"MODERATE_PRICE_DIFF", "MEDIUM">>
    ELSE <<"", "LOW">>

\* The factors that priceDiffPercent and timePeriodHours give by themselves.
C23_Factors(priceDiffPercent, timePeriodHours) ==
    LET OrNormal(factors) ==
            IF factors = <<>> THEN <<"NORMAL_MOVEMENT">> ELSE factors
    IN OrNormal(
         (IF C23_Band(priceDiffPercent)[1] = "" THEN <<>>
          ELSE <<C23_Band(priceDiffPercent)[1]>>)
         \o (IF /\ NumLt(timePeriodHours, Fin(1, 1))
                 /\ NumGt(priceDiffPercent, Fin(20, 1))
              THEN <<"RAPID_PRICE_CHANGE">> ELSE <<>>)
         \o (IF NumLt(timePeriodHours, Fin(1, 10))
              THEN <<"INSUFFICIENT_DATA">> ELSE <<>>))

C23_ShortListsQuiet ==
    Scored =>
        /\ Len(ScoredObservations) \in {2, 3} =>
               ~Includes(Report.factors, "REPETITIVE_PATTERNS")
        /\ (/\ Len(ScoredObservations) = 2
            /\ ScoredObservations[2].block_timestamp
                   > ScoredObservations[1].block_timestamp) =>
               ~Includes(Report.factors, "TICK_SPIKE")
        /\ Len(ScoredObservations) = 2 =>
               /\ Report.factors = C23_Factors(ScoredPriceDiff, ScoredTimePeriod)
               /\ Report.level = C23_Band(ScoredPriceDiff)[2]

\* Three observations with one distinct delta: 1 is not below 0.9.
C23_Witness ==
    /\ Scored
    /\ Len(ScoredObservations) = 3
    /\ Cardinality(UniqueRatios(ScoredObservations)) = 1
    /\ ~Includes(Report.factors, "REPETITIVE_PATTERNS")
====
